---------------------------- MODULE Spec2Model ----------------------------
(***************************************************************************)
(* NewMoonTV search core: the result ranker (SearchResultRanker in         *)
(* src/test-deduplication-demo.js, lines 105-547 hold lib/searchRanking)   *)
(* and the result cache (SearchCacheManager in src/unnamed/part_001,       *)
(* lines 322-583 hold lib/searchCache).                                    *)
(*                                                                         *)
(* JavaScript strings are sequences of one-character strings.  A missing   *)
(* property (undefined) is the distinguished value Undefined.  Scores are  *)
(* kept in tenths of a point and weights in thousandths, so that the       *)
(* arithmetic of the source (50 + sourceScore * 0.3, score * 0.35) stays   *)
(* in the integers.                                                        *)
(***************************************************************************)
EXTENDS Integers, Sequences, FiniteSets, TLC

VARIABLES
    results,         \* rankResults / deduplicateSearchResults: the caller's list
    query,           \* rankResults: the query string
    historyManager,  \* SearchResultRanker.searchHistoryManager (Null or its history)
    currentYear,     \* new Date().getFullYear()
    config,          \* SearchResultRanker.config
    pc,              \* which public operation of the ranker has run
    dedupStage,      \* rankResults: deduplicatedResults (references into results)
    rankOut,         \* rankResults: the resolved value, or the rejection
    dedupOut,        \* deduplicateSearchResults(results)
    dedupOut2,       \* deduplicateSearchResults(dedupOut.val)
    memoryCache,     \* the module-level Map, in insertion order
    lastCleanup,     \* SearchCacheManager.lastCleanup
    now,             \* Date.now(), in minutes
    storage,         \* localStorage[STORAGE_KEY]: Null or the saved payload
    storageMode,     \* localStorage works, throws, or there is no window
    spin,            \* -1, or the now of the cleanup whose while loop is still running
    nSets,           \* history: how often set has been called
    inserted,        \* history: the Map was empty and has since seen only this many
                     \* calls of set, each with a new key (-1: something else)
    lastSetAt,       \* history: per cache key, when set was last called for it
    lastSetN,        \* history: per cache key, which call of set was the last for it
                     \* (0: none yet, -1: none since the last clear)
    lastOp,          \* history: the last event of the cache and its arguments
    lastGet,         \* what the call returned if the last event was a get
    supplied,        \* history: the weights handed to the constructor and updateConfig
    nUpdates,        \* history: how often updateConfig has been called
    finalScored,     \* rankResults: finalScoredResults (scores and finalScore per item)
    divInput,        \* rankResults: finalScoredResults handed to optimizeDiversity
    divKept,         \* rankResults: diversifiedResults (references into divInput)
    divOut,          \* rankResults: the references returned after the sort
    simStr1,         \* calculateStringSimilarity: first argument
    simStr2,         \* calculateStringSimilarity: second argument
    simOut           \* what calculateStringSimilarity returned, both ways round

rankVars == <<results, query, historyManager, currentYear, config, pc,
              dedupStage, rankOut, dedupOut, dedupOut2>>
cacheVars == <<memoryCache, lastCleanup, now, storage, storageMode, spin, nSets, inserted,
               lastSetAt, lastSetN, lastOp, lastGet>>
scoreVars == <<supplied, nUpdates, finalScored>>
divVars == <<divInput, divKept, divOut>>
simVars == <<simStr1, simStr2, simOut>>
auxVars == <<scoreVars, divVars, simVars>>
vars == <<rankVars, cacheVars, auxVars>>

----------------------------------------------------------------------------
(* Bounds of the model *)

\* longest list handed to rankResults / deduplicateSearchResults
MaxLen == 3

\* CACHE_CONFIG.MAX_ITEMS is 50; the model runs the cache with a smaller cap
MAX_ITEMS == 2

\* CACHE_CONFIG.MAX_AGE is 5 minutes, that is 5 times CLEANUP_INTERVAL; the
\* model runs the cache with a shorter lifetime, in units of CLEANUP_INTERVAL
MAX_AGE == 1

\* how far the clock advances after construction, in the same units
MaxElapsed == 2

\* calls of set in one behaviour
MaxSets == 3

\* longest deduplicated list handed to optimizeDiversity
MaxItems == 12

\* longest string handed to calculateStringSimilarity on its own
MaxStrLen == 4

\* calls of updateConfig in one behaviour
MaxUpdates == 1

\* longest title and longest query handed to calculateTitleScore on its own
MaxTitleLen == 3
MaxQueryLen == 2

----------------------------------------------------------------------------
(* JavaScript values *)

Undefined == <<"undefined">>
Null == <<"null">>

\* what searchCache.get returns: cachedItem.results, or null
Hit(rs) == [hit |-> TRUE, results |-> rs]
Miss == [hit |-> FALSE, results |-> <<>>]

\* !s for a string-or-undefined s
Falsy(s) == s = Undefined \/ s = <<>>

IsSpace(c) == c = " "

LowerChar(c) ==
    CASE c = "A" -> "a"
      [] c = "B" -> "b"
      [] c = "C" -> "c"
      [] OTHER -> c

\* String.prototype.toLowerCase
toLowerCase(s) == [i \in 1..Len(s) |-> LowerChar(s[i])]

RECURSIVE TrimLeft(_)
TrimLeft(s) ==
    IF s # <<>> /\ IsSpace(Head(s)) THEN TrimLeft(Tail(s)) ELSE s

RECURSIVE TrimRight(_)
TrimRight(s) ==
    IF s # <<>> /\ IsSpace(s[Len(s)]) THEN TrimRight(SubSeq(s, 1, Len(s) - 1)) ELSE s

\* String.prototype.trim
trim(s) == TrimRight(TrimLeft(s))

\* s.replace(/\s+/g, '')
RemoveWhitespace(s) == SelectSeq(s, LAMBDA c : ~IsSpace(c))

\* String.prototype.indexOf: the first 0-based position of sub in s, or -1
indexOf(s, sub) ==
    LET starts == {p \in 0..(Len(s) - Len(sub)) : SubSeq(s, p + 1, p + Len(sub)) = sub}
    IN  IF starts = {} THEN -1
        ELSE CHOOSE p \in starts : \A q \in starts : p <= q

\* String.prototype.includes
includes(s, sub) == indexOf(s, sub) # -1

IsDigit(c) == c \in {"0", "1", "2", "3", "4", "5", "6", "7", "8", "9"}

DigitValue(c) ==
    CASE c = "0" -> 0 [] c = "1" -> 1 [] c = "2" -> 2 [] c = "3" -> 3
      [] c = "4" -> 4 [] c = "5" -> 5 [] c = "6" -> 6 [] c = "7" -> 7
      [] c = "8" -> 8 [] c = "9" -> 9

RECURSIVE DigitPrefix(_)
DigitPrefix(s) ==
    IF s # <<>> /\ IsDigit(Head(s)) THEN <<Head(s)>> \o DigitPrefix(Tail(s)) ELSE <<>>

RECURSIVE DigitsValue(_)
DigitsValue(d) ==
    IF d = <<>> THEN 0 ELSE 10 * DigitsValue(SubSeq(d, 1, Len(d) - 1)) + DigitValue(d[Len(d)])

NaN == [nan |-> TRUE, v |-> 0]
Num(n) == [nan |-> FALSE, v |-> n]

\* parseInt(s): leading whitespace skipped, an optional sign, then the longest
\* run of digits; NaN when there is none (also for undefined)
parseInt(s) ==
    IF s = Undefined THEN NaN
    ELSE LET t == TrimLeft(s)
             neg == t # <<>> /\ Head(t) = "-"
             u == IF t # <<>> /\ Head(t) \in {"-", "+"} THEN Tail(t) ELSE t
             d == DigitPrefix(u)
         IN  IF d = <<>> THEN NaN
             ELSE Num(IF neg THEN 0 - DigitsValue(d) ELSE DigitsValue(d))

Max(a, b) == IF a >= b THEN a ELSE b
Min(a, b) == IF a <= b THEN a ELSE b
Abs(a) == IF a >= 0 THEN a ELSE 0 - a

----------------------------------------------------------------------------
(* Similarity engine *)

\* One row of the edit-distance matrix: matrix[i][0..len1] from matrix[i-1]
\* a variant of the matrix row that knows insertion and deletion only
RECURSIVE LevRow_NoSubstitution(_, _, _, _, _)
LevRow_NoSubstitution(str1, c2, prev, i, row) ==
    LET j == Len(row)
    IN  IF j > Len(str1) THEN row
        ELSE LET cell == IF c2 = str1[j]
                         THEN prev[j]
                         ELSE Min(row[j] + 1, prev[j + 1] + 1)
             IN  LevRow_NoSubstitution(str1, c2, prev, i, Append(row, cell))

RECURSIVE LevRow(_, _, _, _, _)
LevRow(str1, c2, prev, i, row) ==
    LET j == Len(row)      \* row holds matrix[i][0..j-1]
    IN  IF j > Len(str1) THEN row
        ELSE LET cell == IF c2 = str1[j]
                         THEN prev[j]
                         ELSE Min(Min(prev[j] + 1, row[j] + 1), prev[j + 1] + 1)
             IN  LevRow(str1, c2, prev, i, Append(row, cell))

RECURSIVE LevRows(_, _, _, _)
LevRows(str1, str2, i, prev) ==
    IF i > Len(str2) THEN prev
    ELSE LevRows(str1, str2, i + 1, LevRow(str1, str2[i], prev, i, <<i>>))

\* matrix[len2][len1] of calculateStringSimilarity
EditDistance(str1, str2) ==
    LevRows(str1, str2, 1, [j \in 1..(Len(str1) + 1) |-> j - 1])[Len(str1) + 1]

\* The double 1 - distance / maxLen is kept as the fraction
\* (maxLen - distance) / maxLen.  Division is correctly rounded and the
\* lengths are small, so two such doubles are equal exactly when the
\* fractions are.
Fraction(num, den) == [num |-> num, den |-> den]
SameNumber(a, b) == a.num * b.den = b.num * a.den

\* a variant that divides by the length of the first string
calculateStringSimilarity_ByFirstLength(str1, str2) ==
    IF Len(str1) = 0 THEN (IF Len(str2) = 0 THEN Fraction(1, 1) ELSE Fraction(0, 1))
    ELSE IF Len(str2) = 0 THEN Fraction(0, 1)
    ELSE Fraction(Len(str1) - EditDistance(str1, str2), Len(str1))

calculateStringSimilarity(str1, str2) ==
    IF Len(str1) = 0 THEN (IF Len(str2) = 0 THEN Fraction(1, 1) ELSE Fraction(0, 1))
    ELSE IF Len(str2) = 0 THEN Fraction(0, 1)
    ELSE LET distance == EditDistance(str1, str2)
             maxLen == Max(Len(str1), Len(str2))
         IN  Fraction(maxLen - distance, maxLen)

\* Math.floor((1 - distance / maxLen) * 60) in IEEE-754 doubles falls one short
\* of the exact quotient for these <<maxLen, distance>> (maxLen <= 11)
SimilarityRoundsDown == {<<5, 4>>, <<6, 5>>, <<10, 8>>, <<10, 9>>}

\* Math.floor(calculateStringSimilarity(str1, str2) * 60)
FloorSimilarity60(str1, str2) ==
    IF Len(str1) = 0 THEN (IF Len(str2) = 0 THEN 60 ELSE 0)
    ELSE IF Len(str2) = 0 THEN 0
    ELSE LET distance == EditDistance(str1, str2)
             maxLen == Max(Len(str1), Len(str2))
             exact == (60 * (maxLen - distance)) \div maxLen
         IN  IF <<maxLen, distance>> \in SimilarityRoundsDown THEN exact - 1 ELSE exact

----------------------------------------------------------------------------
(* Scorer.  Every score is in tenths of a point. *)

Points(p) == 10 * p

\* Math.floor(positionBonus * 5) falls one short for these <<length, position>>
PositionRoundsDown == {<<5, 4>>, <<10, 8>>}

\* a variant of calculateTitleScore that compares without toLowerCase
calculateTitleScore_CaseSensitive(title, q) ==
    IF Falsy(title) \/ Falsy(q) THEN 0
    ELSE IF trim(title) = trim(q) THEN Points(100)
    ELSE IF includes(trim(title), trim(q))
    THEN LET len == Len(trim(title))
             position == indexOf(trim(title), trim(q))
             exact5 == (5 * (len - position)) \div len
         IN  Points(80 + (15 * Len(trim(q))) \div len
                    + (IF <<len, position>> \in PositionRoundsDown THEN exact5 - 1 ELSE exact5))
    ELSE Points(FloorSimilarity60(trim(title), trim(q)))

calculateTitleScore(title, q) ==
    IF Falsy(title) \/ Falsy(q) THEN 0
    ELSE LET normalizedTitle == trim(toLowerCase(title))
             normalizedQuery == trim(toLowerCase(q))
         IN  IF normalizedTitle = normalizedQuery THEN Points(100)
             ELSE IF includes(normalizedTitle, normalizedQuery)
             THEN LET len == Len(normalizedTitle)
                      position == indexOf(normalizedTitle, normalizedQuery)
                      ratio15 == (15 * Len(normalizedQuery)) \div len
                      exact5 == (5 * (len - position)) \div len
                      bonus5 == IF <<len, position>> \in PositionRoundsDown
                                THEN exact5 - 1 ELSE exact5
                  IN  Points(80 + ratio15 + bonus5)
             ELSE Points(FloorSimilarity60(normalizedTitle, normalizedQuery))

\* a variant of calculateYearScore that takes no year after the current one
\* from the query
calculateYearScore_NoYearsAhead(year, q, cy) ==
    IF Falsy(year) \/ Falsy(q) THEN Points(50)
    ELSE LET yearNum == parseInt(year)
             queryNum == parseInt(q)
         IN  IF ~queryNum.nan /\ queryNum.v >= 1900 /\ queryNum.v <= cy
             THEN IF yearNum.nan THEN Points(30)
                  ELSE LET diff == Abs(yearNum.v - queryNum.v)
                       IN  IF diff = 0 THEN Points(100)
                           ELSE IF diff = 1 THEN Points(90)
                           ELSE IF diff <= 2 THEN Points(80)
                           ELSE IF diff <= 5 THEN Points(60)
                           ELSE Points(30)
             ELSE IF ~yearNum.nan /\ yearNum.v >= 1990 /\ yearNum.v <= cy + 2
             THEN Points(70)
             ELSE Points(30)

calculateYearScore(year, q, cy) ==
    IF Falsy(year) \/ Falsy(q) THEN Points(50)
    ELSE LET yearNum == parseInt(year)
             queryNum == parseInt(q)
         IN  IF ~queryNum.nan /\ queryNum.v >= 1900 /\ queryNum.v <= cy + 2
             THEN IF yearNum.nan THEN Points(30)   \* every comparison with NaN is false
                  ELSE LET diff == Abs(yearNum.v - queryNum.v)
                       IN  IF diff = 0 THEN Points(100)
                           ELSE IF diff = 1 THEN Points(90)
                           ELSE IF diff <= 2 THEN Points(80)
                           ELSE IF diff <= 5 THEN Points(60)
                           ELSE Points(30)
             ELSE IF ~yearNum.nan /\ yearNum.v >= 1990 /\ yearNum.v <= cy + 2
             THEN Points(70)
             ELSE Points(30)

SOURCE_QUALITY_SCORES(source) ==
    CASE source = "douban" -> 95
      [] source = "imdb" -> 90
      [] source = "tmdb" -> 85
      [] source = "mgtv" -> 80
      [] source = "iqiyi" -> 75
      [] source = "tencent" -> 75
      [] source = "youku" -> 70
      [] source = "bilibili" -> 70
      [] source = "pptv" -> 60
      [] source = "sohu" -> 60
      [] OTHER -> 50

calculateSourceScore(source) == Points(SOURCE_QUALITY_SCORES(source))

\* a variant of calculateDefaultPopularity without the clamp of its last line
calculateDefaultPopularity_Unclamped(result) ==
    LET title == IF Falsy(result.title) THEN <<>> ELSE toLowerCase(result.title)
    IN  Points(50) + 3 * SOURCE_QUALITY_SCORES(result.source)
        + (IF \/ includes(title, <<"re", "men">>)
              \/ includes(title, <<"zui", "xin">>)
              \/ includes(title, <<"tui", "jian">>) THEN Points(10) ELSE 0)
        + (IF \/ includes(title, <<"jing", "dian">>)
              \/ includes(title, <<"gao", "fen">>)
              \/ includes(title, <<"huo", "jiang">>) THEN Points(15) ELSE 0)

\* A Chinese character is written as its pinyin syllable: <<"re", "men">> is
\* the two-character marker of line 378, and so on for the other five
calculateDefaultPopularity(result) ==
    LET base == Points(50) + 3 * SOURCE_QUALITY_SCORES(result.source)
        title == IF Falsy(result.title) THEN <<>> ELSE toLowerCase(result.title)
        hot == IF \/ includes(title, <<"re", "men">>)
                  \/ includes(title, <<"zui", "xin">>)
                  \/ includes(title, <<"tui", "jian">>)
               THEN Points(10) ELSE 0
        classic == IF \/ includes(title, <<"jing", "dian">>)
                      \/ includes(title, <<"gao", "fen">>)
                      \/ includes(title, <<"huo", "jiang">>)
                   THEN Points(15) ELSE 0
    IN  Min(Points(100), Max(0, base + hot + classic))

\* the filter of calculatePopularityScore raises when result.title is undefined
\* and some history item has a non-empty query
HistoryFilterThrows(result, history) ==
    result.title = Undefined /\ \E k \in 1..Len(history) : ~Falsy(history[k])

HistoryMatches(result, history) ==
    Cardinality({k \in 1..Len(history) :
        /\ ~Falsy(history[k])
        /\ \/ includes(toLowerCase(history[k]), toLowerCase(result.title))
           \/ includes(toLowerCase(result.title), toLowerCase(history[k]))})

\* a history manager whose getRecentHistory raises
Throwing == <<"throws">>

\* no manager: the fallback; an exception of getRecentHistory or of the filter
\* is caught (line 359) and gives the fallback too
calculatePopularityScore(result, hm) ==
    IF hm = Null THEN calculateDefaultPopularity(result)
    ELSE IF hm = Throwing THEN calculateDefaultPopularity(result)
    ELSE IF HistoryFilterThrows(result, hm) THEN calculateDefaultPopularity(result)
    ELSE LET queryCount == HistoryMatches(result, hm)
             popularityScore == Min(100, queryCount * 10)
         IN  IF ~Falsy(result.douban_id)
             THEN Points(popularityScore + Min(20, parseInt(result.douban_id).v % 100))
             ELSE Points(popularityScore)

\* a variant of calculateRecencyScore whose steps leave out their upper ends
calculateRecencyScore_StepsExclusive(result, cy) ==
    LET yearNum == parseInt(result.year)
    IN  IF yearNum.nan THEN Points(10)
        ELSE LET age == cy - yearNum.v
             IN  IF age < 1 THEN Points(100)
                 ELSE IF age < 3 THEN Points(85)
                 ELSE IF age < 5 THEN Points(70)
                 ELSE IF age < 10 THEN Points(50)
                 ELSE IF age < 20 THEN Points(30)
                 ELSE Points(10)

calculateRecencyScore(result, cy) ==
    LET yearNum == parseInt(result.year)
    IN  IF yearNum.nan THEN Points(10)       \* every comparison with NaN is false
        ELSE LET age == cy - yearNum.v
             IN  IF age <= 1 THEN Points(100)
                 ELSE IF age <= 3 THEN Points(85)
                 ELSE IF age <= 5 THEN Points(70)
                 ELSE IF age <= 10 THEN Points(50)
                 ELSE IF age <= 20 THEN Points(30)
                 ELSE Points(10)

calculateScores(result, q, hm, cy) ==
    [titleScore |-> calculateTitleScore(result.title, q),
     yearScore |-> calculateYearScore(result.year, q, cy),
     sourceScore |-> calculateSourceScore(result.source),
     popularityScore |-> calculatePopularityScore(result, hm),
     recencyScore |-> calculateRecencyScore(result, cy)]

\* a variant of the defaults with a recency weight of 0.15
DefaultConfig_RecencyFifteen ==
    [titleWeight |-> 350, yearWeight |-> 150, sourceWeight |-> 200,
     popularityWeight |-> 150, recencyWeight |-> 150, diversityWeight |-> 50]

\* the constructor's defaults, in thousandths
DefaultConfig ==
    [titleWeight |-> 350, yearWeight |-> 150, sourceWeight |-> 200,
     popularityWeight |-> 150, recencyWeight |-> 100, diversityWeight |-> 50]

\* { ...config, ...newConfig }: the properties of newConfig win, the others stay
MergeConfig(cfg, newConfig) ==
    [w \in DOMAIN cfg \cup DOMAIN newConfig |->
        IF w \in DOMAIN newConfig THEN newConfig[w] ELSE cfg[w]]

\* a variant that divides the weighted sum by the sum of the five weights
calculateFinalScore_Renormalized(scores, cfg) ==
    LET sum == scores.titleScore * cfg.titleWeight
               + scores.yearScore * cfg.yearWeight
               + scores.sourceScore * cfg.sourceWeight
               + scores.popularityScore * cfg.popularityWeight
               + scores.recencyScore * cfg.recencyWeight
        weights == cfg.titleWeight + cfg.yearWeight + cfg.sourceWeight
                   + cfg.popularityWeight + cfg.recencyWeight
    IN  IF weights = 0 THEN 0 ELSE (sum * 1000) \div weights

\* a variant that adds the five scores up without their weights
calculateFinalScore_Unweighted(scores, cfg) ==
    1000 * (scores.titleScore + scores.yearScore + scores.sourceScore
            + scores.popularityScore + scores.recencyScore)

calculateFinalScore(scores, cfg) ==
    scores.titleScore * cfg.titleWeight
    + scores.yearScore * cfg.yearWeight
    + scores.sourceScore * cfg.sourceWeight
    + scores.popularityScore * cfg.popularityWeight
    + scores.recencyScore * cfg.recencyWeight

----------------------------------------------------------------------------
(* Deduplicator *)

Ok(v) == [ok |-> TRUE, val |-> v]
\* a TypeError raised and not caught
TypeError == [ok |-> FALSE, val |-> <<>>]

\* result.title.toLowerCase() raises when title is undefined
generateDeduplicationKeyThrows(result) == result.title = Undefined

generateDeduplicationKey(result) ==
    LET title == trim(RemoveWhitespace(toLowerCase(result.title)))
        year == IF Falsy(result.year) THEN <<>> ELSE result.year
    IN  title \o <<"_">> \o year

\* position of key in the Map seen (0: not there)
SeenIndex(seen, key) ==
    IF \E k \in 1..Len(seen) : seen[k].key = key
    THEN CHOOSE k \in 1..Len(seen) : seen[k].key = key
    ELSE 0

\* the for loop of deduplicateResults from item i on; seen is the Map so far,
\* in insertion order (Map.set of a key it holds keeps the key's place)
\* a variant of the loop that also replaces the kept item on an equal score
RECURSIVE DedupLoop_ReplaceOnTie(_, _, _, _)
DedupLoop_ReplaceOnTie(scoredResults, i, seen, cfg) ==
    IF i > Len(scoredResults) THEN Ok([k \in 1..Len(seen) |-> seen[k].item])
    ELSE LET item == scoredResults[i]
         IN  IF generateDeduplicationKeyThrows(item.result) THEN TypeError
             ELSE LET key == generateDeduplicationKey(item.result)
                      at == SeenIndex(seen, key)
                  IN  IF at = 0
                      THEN DedupLoop_ReplaceOnTie(scoredResults, i + 1,
                                     Append(seen, [key |-> key, item |-> item]), cfg)
                      ELSE IF calculateFinalScore(item.scores, cfg)
                                >= calculateFinalScore(seen[at].item.scores, cfg)
                      THEN DedupLoop_ReplaceOnTie(scoredResults, i + 1,
                                     [seen EXCEPT ![at].item = item], cfg)
                      ELSE DedupLoop_ReplaceOnTie(scoredResults, i + 1, seen, cfg)

RECURSIVE DedupLoop(_, _, _, _)
DedupLoop(scoredResults, i, seen, cfg) ==
    IF i > Len(scoredResults) THEN Ok([k \in 1..Len(seen) |-> seen[k].item])
    ELSE LET item == scoredResults[i]
         IN  IF generateDeduplicationKeyThrows(item.result) THEN TypeError
             ELSE LET key == generateDeduplicationKey(item.result)
                      at == SeenIndex(seen, key)
                  IN  IF at = 0
                      THEN DedupLoop(scoredResults, i + 1,
                                     Append(seen, [key |-> key, item |-> item]), cfg)
                      ELSE IF calculateFinalScore(item.scores, cfg)
                                > calculateFinalScore(seen[at].item.scores, cfg)
                      THEN DedupLoop(scoredResults, i + 1,
                                     [seen EXCEPT ![at].item = item], cfg)
                      ELSE DedupLoop(scoredResults, i + 1, seen, cfg)

\* a variant whose loop stops one item short of the end of the list
deduplicateResults_StopsShort(scoredResults, cfg) ==
    DedupLoop(SubSeq(scoredResults, 1, Len(scoredResults) - 1), 1, <<>>, cfg)

deduplicateResults(scoredResults, cfg) == DedupLoop(scoredResults, 1, <<>>, cfg)

----------------------------------------------------------------------------
(* Ranking pipeline *)

\* a variant of the pass that keeps an item only while both limits hold
optimizeDiversityLoop_BothLimits(scoredResults, sourceLimit) ==
    LET RECURSIVE Pass(_, _)
        Pass(i, diversified) ==
            IF i > Len(scoredResults) THEN diversified
            ELSE LET item == scoredResults[i]
                     count == Cardinality({k \in 1..Len(diversified) :
                                  diversified[k].result.source = item.result.source})
                 IN  IF count < sourceLimit /\ Len(diversified) < sourceLimit * 2
                     THEN Pass(i + 1, Append(diversified, item))
                     ELSE Pass(i + 1, diversified)
    IN  Pass(1, <<>>)

optimizeDiversityLoop(scoredResults, sourceLimit) ==
    LET RECURSIVE Pass(_, _)
        Pass(i, diversified) ==
            IF i > Len(scoredResults) THEN diversified
            ELSE LET item == scoredResults[i]
                     count == Cardinality({k \in 1..Len(diversified) :
                                  diversified[k].result.source = item.result.source})
                 IN  IF count < sourceLimit \/ Len(diversified) < sourceLimit * 2
                     THEN Pass(i + 1, Append(diversified, item))
                     ELSE Pass(i + 1, diversified)
    IN  Pass(1, <<>>)

\* a variant that rounds the limit up instead of down
optimizeDiversity_RoundsUp(scoredResults) ==
    optimizeDiversityLoop(scoredResults, Max(3, (3 * Len(scoredResults) + 9) \div 10))

\* Math.floor(n * 0.3) equals (3 * n) \div 10 in doubles for every n below 40
optimizeDiversity(scoredResults) ==
    optimizeDiversityLoop(scoredResults, Max(3, (3 * Len(scoredResults)) \div 10))

\* a variant of the insertion that puts an item before its equals
RECURSIVE SortInsert_BeforeEquals(_, _)
SortInsert_BeforeEquals(sorted, item) ==
    IF sorted = <<>> THEN <<item>>
    ELSE IF sorted[Len(sorted)].finalScore > item.finalScore THEN Append(sorted, item)
    ELSE Append(SortInsert_BeforeEquals(SubSeq(sorted, 1, Len(sorted) - 1), item),
                sorted[Len(sorted)])

\* Array.prototype.sort((a, b) => b.finalScore - a.finalScore): stable, so an
\* item goes behind every item that does not score less
RECURSIVE SortInsert(_, _)
SortInsert(sorted, item) ==
    IF sorted = <<>> THEN <<item>>
    ELSE IF sorted[Len(sorted)].finalScore >= item.finalScore THEN Append(sorted, item)
    ELSE Append(SortInsert(SubSeq(sorted, 1, Len(sorted) - 1), item), sorted[Len(sorted)])

RECURSIVE SortFrom(_, _, _)
SortFrom(items, i, sorted) ==
    IF i > Len(items) THEN sorted ELSE SortFrom(items, i + 1, SortInsert(sorted, items[i]))

sortByFinalScore(items) == SortFrom(items, 1, <<>>)

\* results.map(result => ({result, scores})): ref is the place of the object
\* in the caller's list, which stands for the object's identity
ScoredResults(rs, q, hm, cy) ==
    [i \in 1..Len(rs) |-> [ref |-> i, result |-> rs[i],
                           scores |-> calculateScores(rs[i], q, hm, cy)]]

\* a variant that returns the scored wrappers, which are new objects and no
\* members of the caller's list (reference 0)
Refs_Wrappers(items) == [k \in 1..Len(items) |-> 0]

\* .map(item => item.result): the objects returned are the caller's own
Refs(items) == [k \in 1..Len(items) |-> items[k].ref]

\* deduplicatedResults of rankResults
RankDedup(rs, q, hm, cy, cfg) == deduplicateResults(ScoredResults(rs, q, hm, cy), cfg)

\* rankResults(results, query): the references returned, or the rejection
rankResults(rs, q, hm, cy, cfg) ==
    IF Len(rs) = 0 THEN Ok(<<>>)
    ELSE LET deduplicatedResults == RankDedup(rs, q, hm, cy, cfg)
         IN  IF ~deduplicatedResults.ok THEN TypeError
             ELSE LET finalScoredResults ==
                          [k \in 1..Len(deduplicatedResults.val) |->
                              [ref |-> deduplicatedResults.val[k].ref,
                               result |-> deduplicatedResults.val[k].result,
                               scores |-> deduplicatedResults.val[k].scores,
                               finalScore |-> calculateFinalScore(
                                   deduplicatedResults.val[k].scores, cfg)]]
                      diversifiedResults == optimizeDiversity(finalScoredResults)
                  IN  Ok(Refs(sortByFinalScore(diversifiedResults)))

ZeroScores ==
    [titleScore |-> 0, yearScore |-> 0, sourceScore |-> 0,
     popularityScore |-> 0, recencyScore |-> 0]

\* deduplicateSearchResults(results): every result gets a score of 0 and goes
\* through deduplicateResults; the surviving results come back in order
deduplicateSearchResults(rs, cfg) ==
    LET deduped == deduplicateResults(
            [i \in 1..Len(rs) |-> [ref |-> i, result |-> rs[i], scores |-> ZeroScores]], cfg)
    IN  IF ~deduped.ok THEN TypeError
        ELSE Ok([k \in 1..Len(deduped.val) |-> deduped.val[k].result])

----------------------------------------------------------------------------
(* The ranker's inputs *)

Result(id, title, year, source, doubanId) ==
    [id |-> id, title |-> title, year |-> year, source |-> source, douban_id |-> doubanId]

Y2026 == <<"2", "0", "2", "6">>
Y2025 == <<"2", "0", "2", "5">>

\* The records a caller's list is drawn from: duplicates by title and year from
\* sources of different and of equal quality, a title that differs in case and
\* whitespace only, records with and without an external id, records with an
\* empty title, and a record with no title at all
ResultPool ==
    { Result("1", <<"a", "b">>, Y2026, "iqiyi", <<>>),
      Result("2", <<"a", "b">>, Y2026, "douban", <<>>),
      Result("3", <<"a", "b">>, Y2025, "douban", <<>>),
      Result("4", <<"A", " ", "b", " ">>, Y2026, "tencent", <<"4", "5">>),
      Result("5", <<"b", "a">>, Y2026, "x", <<"4", "5">>),
      Result("6", <<>>, Y2026, "x", <<>>),
      Result("7", <<>>, Y2026, "iqiyi", <<>>),
      Result("8", Undefined, <<>>, "x", <<>>) }

Queries == { <<>>, <<"a", "b">>, Y2026 }

\* no history manager (no window), or one whose recent history is this list
HistoryManagers == { Null, << <<"a", "b">> >> }

CurrentYears == { 2026 }

ResultLists == UNION { [1..n -> ResultPool] : n \in 0..MaxLen }

NoValue == [ok |-> TRUE, val |-> <<>>]

----------------------------------------------------------------------------
(* The ranker as a state machine: one public call per behaviour *)

\* the parts of the model a behaviour of another part leaves untouched
ScoreIdle == supplied = <<>> /\ nUpdates = 0 /\ finalScored = <<>>
DiversityIdle == divInput = <<>> /\ divKept = <<>> /\ divOut = <<>>
SimilarityIdle == simStr1 = <<>> /\ simStr2 = <<>> /\ simOut = <<>>

CacheIdle ==
    /\ memoryCache = <<>>
    /\ lastCleanup = 0
    /\ now = 0
    /\ storage = Null
    /\ storageMode = "ok"
    /\ spin = -1
    /\ nSets = 0
    /\ inserted = -1
    /\ lastSetAt = <<>>
    /\ lastSetN = <<>>
    /\ lastOp = [op |-> "none"]
    /\ lastGet = Miss

Init ==
    /\ results \in ResultLists
    /\ query \in Queries
    /\ historyManager \in HistoryManagers
    /\ currentYear \in CurrentYears
    /\ config = DefaultConfig
    /\ pc = "init"
    /\ dedupStage = NoValue
    /\ rankOut = NoValue
    /\ dedupOut = NoValue
    /\ dedupOut2 = NoValue
    /\ CacheIdle
    /\ ScoreIdle /\ DiversityIdle /\ SimilarityIdle

\* await defaultRanker.rankResults(results, query)
RankResults ==
    /\ pc = "init"
    /\ pc' = "ranked"
    /\ rankOut' = rankResults(results, query, historyManager, currentYear, config)
    /\ dedupStage' = IF Len(results) = 0 THEN NoValue
                     ELSE LET d == RankDedup(results, query, historyManager, currentYear, config)
                          IN  IF d.ok THEN Ok(Refs(d.val)) ELSE TypeError
    /\ UNCHANGED <<results, query, historyManager, currentYear, config,
                   dedupOut, dedupOut2, cacheVars, auxVars>>

\* defaultRanker.deduplicateSearchResults(results)
DeduplicateSearchResults ==
    /\ pc = "init"
    /\ pc' = "deduped"
    /\ dedupOut' = deduplicateSearchResults(results, config)
    /\ UNCHANGED <<results, query, historyManager, currentYear, config,
                   dedupStage, rankOut, dedupOut2, cacheVars, auxVars>>

\* deduplicateSearchResults applied to what it returned; a TypeError of the
\* first call leaves nothing to apply it to
DeduplicateAgain ==
    /\ pc = "deduped"
    /\ pc' = "deduped2"
    /\ dedupOut2' = IF dedupOut.ok THEN deduplicateSearchResults(dedupOut.val, config)
                    ELSE TypeError
    /\ UNCHANGED <<results, query, historyManager, currentYear, config,
                   dedupStage, rankOut, dedupOut, cacheVars, auxVars>>

Next == RankResults \/ DeduplicateSearchResults \/ DeduplicateAgain

Spec == Init /\ [][Next]_vars

----------------------------------------------------------------------------
(* Vocabulary of the ranker's properties *)

Range(f) == { f[k] : k \in 1..Len(f) }

\* finalScore of the i-th input result, as rankResults computes it
FinalScoreOf(i) ==
    calculateFinalScore(calculateScores(results[i], query, historyManager, currentYear),
                        config)

\* the key deduplicateResults files the i-th input result under
KeyOf(i) == generateDeduplicationKey(results[i])

\* the primary identity key of section 4.3: the external id when there is one,
\* otherwise normalized title and year, otherwise (no title either) source and id
PrimaryKey(r) ==
    IF ~Falsy(r.douban_id) THEN <<"ext", r.douban_id>>
    ELSE IF ~Falsy(r.title)
    THEN <<"title", RemoveWhitespace(toLowerCase(r.title)),
           IF Falsy(r.year) THEN <<>> ELSE r.year>>
    ELSE <<"source", r.source, r.id>>

Ranked == pc = "ranked" /\ rankOut.ok
Deduped == pc = "ranked" /\ dedupStage.ok /\ Len(results) > 0

\* C1: for a non-empty input, rankResults returns distinct members of the input,
\* no two of which share a primary identity key (external id first, otherwise
\* normalized title and year).
C1_RankNoSharedPrimaryKey ==
    (Ranked /\ Len(results) > 0) =>
        /\ Range(rankOut.val) \subseteq 1..Len(results)
        /\ \A a, b \in 1..Len(rankOut.val) :
              a # b =>
                /\ rankOut.val[a] # rankOut.val[b]
                /\ PrimaryKey(results[rankOut.val[a]]) # PrimaryKey(results[rankOut.val[b]])

\* C5: a result with an external id and a result without one are not merged by
\* deduplication, even with the same normalized title and year: the bucket of
\* each keeps a representative.
C5_ExternalIdNotMergedWithTitleOnly ==
    Deduped =>
        \A i, j \in 1..Len(results) :
            ( /\ ~Falsy(results[i].douban_id)
              /\ Falsy(results[j].douban_id)
              /\ RemoveWhitespace(toLowerCase(results[i].title))
                    = RemoveWhitespace(toLowerCase(results[j].title))
              /\ results[i].year = results[j].year )
            => \A m \in {i, j} :
                 \E k \in Range(dedupStage.val) :
                     PrimaryKey(results[k]) = PrimaryKey(results[m])

C8_EmptyTitleNeverCollapsed ==
    Deduped =>
        \A i \in 1..Len(results) :
            (Falsy(results[i].douban_id) /\ results[i].title = <<>>)
            => \E k \in Range(dedupStage.val) :
                   /\ results[k].source = results[i].source
                   /\ results[k].id = results[i].id

\* C9: rankResults never raises for sparse input (year, external id or title
\* empty or missing, any query), and returns an empty list for an empty input.
C9_RankNeverRaises ==
    pc = "ranked" =>
        /\ rankOut.ok
        /\ Len(results) = 0 => rankOut.val = <<>>

\* every result has a title and no external id: the key of deduplicateResults
\* and the primary identity key then agree
PlainInput ==
    \A i \in 1..Len(results) : ~Falsy(results[i].title) /\ Falsy(results[i].douban_id)

\* C10 as claimed: the list rankResults returns is in non-increasing order of
\* finalScore, and items with equal finalScore keep their relative order of the
\* input list (stated for results that all have a title and no external id).
C10_StableInInputOrder ==
    (Ranked /\ PlainInput) =>
        \A a, b \in 1..Len(rankOut.val) :
            a < b =>
              /\ FinalScoreOf(rankOut.val[a]) >= FinalScoreOf(rankOut.val[b])
              /\ FinalScoreOf(rankOut.val[a]) = FinalScoreOf(rankOut.val[b])
                    => rankOut.val[a] < rankOut.val[b]

\* the place in the input where the key of the i-th result first occurs
FirstOccurrence(i) ==
    CHOOSE m \in 1..Len(results) :
        /\ KeyOf(m) = KeyOf(i)
        /\ \A n \in 1..Len(results) : KeyOf(n) = KeyOf(i) => m <= n

\* C10 as amended: the list rankResults returns is in non-increasing order of
\* finalScore, and items with equal finalScore are in the order in which their
\* deduplication keys first occur in the input list.
C10_StableInDedupOrder ==
    Ranked =>
        \A a, b \in 1..Len(rankOut.val) :
            a < b =>
              /\ FinalScoreOf(rankOut.val[a]) >= FinalScoreOf(rankOut.val[b])
              /\ FinalScoreOf(rankOut.val[a]) = FinalScoreOf(rankOut.val[b])
                    => FirstOccurrence(rankOut.val[a]) < FirstOccurrence(rankOut.val[b])

\* two returned items with equal finalScore, the first of which came later in
\* the input
C10_Witness ==
    /\ Ranked
    /\ \E a, b \in 1..Len(rankOut.val) :
          /\ a < b
          /\ FinalScoreOf(rankOut.val[a]) = FinalScoreOf(rankOut.val[b])
          /\ rankOut.val[a] > rankOut.val[b]

\* C11: rankResults leaves its input as it was (the same records in the same
\* order, each unmodified), and every element it returns is one of the input's
\* records itself, not a scored wrapper or a copy.
C11_RankLeavesInputAlone ==
    [][RankResults =>
          /\ results' = results
          /\ rankOut'.ok =>
                \A k \in 1..Len(rankOut'.val) : rankOut'.val[k] \in 1..Len(results)]_vars

\* a call that returned several records in another order than the input's
C11_Witness ==
    /\ Ranked
    /\ \E a, b \in 1..Len(rankOut.val) : a < b /\ rankOut.val[a] > rankOut.val[b]


----------------------------------------------------------------------------
(* Result cache.  Time is in units of CLEANUP_INTERVAL (one minute). *)

CLEANUP_INTERVAL == 1

IsWordChar(c) == IsDigit(c) \/ c \in {"a", "b", "c", "A", "B", "C", "_"}

\* s.replace(/\s+/g, '_'): every run of whitespace becomes one underscore
RECURSIVE CollapseWhitespace(_)
CollapseWhitespace(s) ==
    IF s = <<>> THEN <<>>
    ELSE IF IsSpace(Head(s)) THEN <<"_">> \o CollapseWhitespace(TrimLeft(s))
    ELSE <<Head(s)>> \o CollapseWhitespace(Tail(s))

generateCacheKey(q) ==
    SelectSeq(CollapseWhitespace(toLowerCase(trim(q))),
              LAMBDA c : IsWordChar(c) \/ c = "-")

\* isCacheValid(item) when Date.now() is t
\* a variant that takes the age with the wrong sign
isCacheValid_AgeReversed(item, t) == item.timestamp - t < MAX_AGE

isCacheValid(item, t) == t - item.timestamp < MAX_AGE

\* Map.prototype.get: the place of key in the Map (0: not there)
MapIndex(cache, key) ==
    IF \E k \in 1..Len(cache) : cache[k].key = key
    THEN CHOOSE k \in 1..Len(cache) : cache[k].key = key
    ELSE 0

\* a variant of Map.prototype.set that leaves the entry of a key it holds alone
MapSet_KeepsExisting(cache, item) ==
    IF MapIndex(cache, item.key) = 0 THEN Append(cache, item) ELSE cache

\* Map.prototype.set: a key the Map holds keeps its place
MapSet(cache, item) ==
    IF MapIndex(cache, item.key) = 0 THEN Append(cache, item)
    ELSE [cache EXCEPT ![MapIndex(cache, item.key)] = item]

\* localStorage after saveToStorage: the payload is the Map's entries; a
\* failing setItem is caught, and without a window nothing is written
saveToStorage(cache, mode, old) == IF mode = "ok" THEN cache ELSE old

Corrupt == <<"corrupt">>

\* the Map after loadFromStorage at time t
loadFromStorage(stored, mode, t) ==
    IF mode # "ok" \/ stored = Null \/ stored = Corrupt THEN <<>>
    ELSE SelectSeq(stored, LAMBDA item : isCacheValid(item, t))

\* the entry the for loop of lines 431-436 picks when Date.now() is t: the
\* first one with the least timestamp below t (0: oldestKey stays null)
OldestIndex(cache, t) ==
    LET older == { k \in 1..Len(cache) : cache[k].timestamp < t }
    IN  IF older = {} THEN 0
        ELSE CHOOSE k \in older :
                 \A m \in older :
                     \/ cache[k].timestamp < cache[m].timestamp
                     \/ (cache[k].timestamp = cache[m].timestamp /\ k <= m)

RemoveAt(cache, k) == SubSeq(cache, 1, k - 1) \o SubSeq(cache, k + 1, Len(cache))

\* the while loop of cleanup while Date.now() stays t: done when the Map is
\* back under the cap, not done when no entry is older than t (the loop then
\* goes round without deleting, until the clock moves)
RECURSIVE EvictLoop(_, _)
EvictLoop(cache, t) ==
    IF Len(cache) <= MAX_ITEMS THEN [done |-> TRUE, cache |-> cache]
    ELSE IF OldestIndex(cache, t) = 0 THEN [done |-> FALSE, cache |-> cache]
    ELSE EvictLoop(RemoveAt(cache, OldestIndex(cache, t)), t)

\* the for loop of lines 417-423
DeleteExpired(cache, t) == SelectSeq(cache, LAMBDA item : ~(t - item.timestamp > MAX_AGE))

----------------------------------------------------------------------------
(* The cache's inputs *)

CacheQueries == { <<"a">>, <<" ", "A">>, <<"b">>, <<"c">> }

CacheKeys == { generateCacheKey(q) : q \in CacheQueries }

\* the result list handed to the n-th call of set: n results, so that the
\* lists of different calls differ
CallResults(n) == [k \in 1..n |-> Result("1", <<"a", "b">>, Y2026, "iqiyi", <<>>)]

\* the result lists an earlier session saved
Stored1 == << Result("2", <<"a", "b">>, Y2026, "douban", <<>>) >>
Stored2 == << Result("3", <<"a", "b">>, Y2025, "douban", <<>>) >>

\* Date.now() when the manager is constructed
StartTime == MAX_AGE + 1

CacheItem(q, rs, t) ==
    [key |-> generateCacheKey(q), query |-> trim(q), results |-> rs, timestamp |-> t]

\* what an earlier session left in localStorage: nothing, a payload that does
\* not parse, a fresh and an expired entry, or more fresh entries than the cap
\* (set never evicts, so an earlier session can have saved them), the last of
\* them stamped by a clock that ran ahead
StoredPayloads ==
    { Null,
      Corrupt,
      << CacheItem(<<"a">>, Stored1, StartTime - (MAX_AGE - 1)), CacheItem(<<"b">>, Stored2, 0) >>,
      << CacheItem(<<"a">>, Stored2, StartTime - (MAX_AGE - 1)), CacheItem(<<"b">>, Stored1, StartTime - (MAX_AGE - 1)),
         CacheItem(<<"c">>, Stored1, StartTime + 1) >> }

StorageModes == { "ok" }

NeverSet == -1

----------------------------------------------------------------------------
(* The cache as a state machine *)

RankerIdle ==
    /\ results = <<>>
    /\ query = <<>>
    /\ historyManager = Null
    /\ currentYear = 2026
    /\ config = DefaultConfig
    /\ pc = "init"
    /\ dedupStage = NoValue
    /\ rankOut = NoValue
    /\ dedupOut = NoValue
    /\ dedupOut2 = NoValue

\* SearchCacheManager.getInstance(): the constructor has run init
CacheInit ==
    /\ RankerIdle
    /\ ScoreIdle /\ DiversityIdle /\ SimilarityIdle
    /\ now = StartTime
    /\ storageMode \in StorageModes
    /\ storage \in StoredPayloads
    /\ memoryCache = loadFromStorage(storage, storageMode, now)
    /\ lastCleanup = 0
    /\ spin = -1
    /\ nSets = 0
    /\ inserted = IF memoryCache = <<>> THEN 0 ELSE -1
    /\ lastSetAt = [k \in CacheKeys |-> NeverSet]
    /\ lastSetN = [k \in CacheKeys |-> 0]
    /\ lastOp = [op |-> "load"]
    /\ lastGet = Miss

\* searchCache.set(query, results)
Set(q, rs) ==
    /\ spin = -1
    /\ nSets < MaxSets
    /\ nSets' = nSets + 1
    /\ inserted' = IF inserted >= 0 /\ MapIndex(memoryCache, generateCacheKey(q)) = 0
                   THEN inserted + 1 ELSE -1
    /\ memoryCache' = MapSet(memoryCache, CacheItem(q, rs, now))
    /\ storage' = saveToStorage(memoryCache', storageMode, storage)
    /\ lastSetAt' = [lastSetAt EXCEPT ![generateCacheKey(q)] = now]
    /\ lastSetN' = [lastSetN EXCEPT ![generateCacheKey(q)] = nSets + 1]
    /\ lastOp' = [op |-> "set", query |-> q, results |-> rs]
    /\ lastGet' = Miss
    /\ UNCHANGED <<lastCleanup, now, storageMode, spin, rankVars, auxVars>>

\* what searchCache.get(query) returns
get(q) ==
    LET at == MapIndex(memoryCache, generateCacheKey(q))
    IN  IF at # 0 /\ isCacheValid(memoryCache[at], now)
        THEN Hit(memoryCache[at].results)
        ELSE Miss

\* a variant of get that deletes the entry it finds expired
Get_RemovesExpired(q) ==
    /\ spin = -1
    /\ lastGet' = get(q)
    /\ lastOp' = LET justSet == lastOp.op = "set" /\ lastOp.query = q
                 IN  [op |-> "get", query |-> q, justSet |-> justSet,
                      given |-> IF justSet THEN lastOp.results ELSE <<>>]
    /\ memoryCache' = LET at == MapIndex(memoryCache, generateCacheKey(q))
                      IN  IF at # 0 /\ ~isCacheValid(memoryCache[at], now)
                          THEN RemoveAt(memoryCache, at) ELSE memoryCache
    /\ UNCHANGED <<lastCleanup, now, storage, storageMode, spin, nSets, inserted,
                   lastSetAt, lastSetN, rankVars, auxVars>>

\* searchCache.get(query)
Get(q) ==
    /\ spin = -1
    /\ lastGet' = get(q)
    /\ lastOp' = LET justSet == lastOp.op = "set" /\ lastOp.query = q
                 IN  [op |-> "get", query |-> q, justSet |-> justSet,
                      given |-> IF justSet THEN lastOp.results ELSE <<>>]
    /\ UNCHANGED <<memoryCache, lastCleanup, now, storage, storageMode, spin, nSets, inserted,
                   lastSetAt, lastSetN, rankVars, auxVars>>

\* searchCache.clear(); removeItem is not guarded, so a failing localStorage
\* makes clear raise after it emptied the Map
Clear ==
    /\ spin = -1
    /\ memoryCache' = <<>>
    /\ storage' = IF storageMode = "ok" THEN Null ELSE storage
    /\ lastOp' = [op |-> "clear", raised |-> storageMode = "throws"]
    /\ lastGet' = Miss
    /\ inserted' = 0
    /\ lastSetN' = [k \in DOMAIN lastSetN |-> -1]
    /\ UNCHANGED <<lastCleanup, now, storageMode, spin, nSets, lastSetAt, rankVars, auxVars>>

\* the timer of init calls cleanup: setInterval calls it when at least
\* CLEANUP_INTERVAL has passed since the construction
Cleanup ==
    /\ spin = -1
    /\ now >= StartTime + CLEANUP_INTERVAL
    /\ IF now - lastCleanup < CLEANUP_INTERVAL
       THEN /\ lastOp' = [op |-> "cleanup", ran |-> FALSE]
            /\ UNCHANGED <<memoryCache, lastCleanup, storage, spin, inserted>>
       ELSE LET evicted == EvictLoop(DeleteExpired(memoryCache, now), now)
            IN  /\ memoryCache' = evicted.cache
                /\ lastOp' = [op |-> "cleanup", ran |-> TRUE]
                /\ inserted' = IF memoryCache' = <<>> THEN 0 ELSE -1
                /\ IF evicted.done
                   THEN /\ lastCleanup' = now
                        /\ storage' = saveToStorage(memoryCache', storageMode, storage)
                        /\ spin' = -1
                   ELSE /\ spin' = now
                        /\ UNCHANGED <<lastCleanup, storage>>
    /\ lastGet' = Miss
    /\ UNCHANGED <<now, storageMode, nSets, lastSetAt, lastSetN, rankVars, auxVars>>

\* the while loop of a cleanup goes on after the clock has moved
CleanupSpin ==
    /\ spin # -1
    /\ OldestIndex(memoryCache, now) # 0
    /\ LET evicted == EvictLoop(memoryCache, now)
       IN  /\ memoryCache' = evicted.cache
           /\ IF evicted.done
              THEN /\ lastCleanup' = spin
                   /\ storage' = saveToStorage(memoryCache', storageMode, storage)
                   /\ spin' = -1
              ELSE UNCHANGED <<lastCleanup, storage, spin>>
    /\ UNCHANGED <<now, storageMode, nSets, inserted, lastSetAt, lastSetN, lastOp, lastGet, rankVars, auxVars>>

\* a minute passes
Tick ==
    /\ now < StartTime + MaxElapsed
    /\ now' = now + 1
    /\ lastOp' = [op |-> "tick"]
    /\ lastGet' = Miss
    /\ UNCHANGED <<memoryCache, lastCleanup, storage, storageMode, spin, nSets, inserted,
                   lastSetAt, lastSetN, rankVars, auxVars>>

CacheNext ==
    \/ \E q \in CacheQueries : Set(q, CallResults(nSets + 1))
    \/ \E q \in CacheQueries : Get(q)
    \/ Clear
    \/ Cleanup
    \/ CleanupSpin
    \/ Tick

CacheSpec == CacheInit /\ [][CacheNext]_vars

----------------------------------------------------------------------------
(* Properties of the cache *)

KeyOfQuery(q) == generateCacheKey(q)

\* C2: get(q) directly after set(q, r) returns r; and get(q) returns absent once
\* more than MAX_AGE has passed since the last set for q's key.
C2_CacheRoundTrip ==
    lastOp.op = "get" =>
        /\ lastOp.justSet => lastGet = Hit(lastOp.given)
        /\ ( /\ lastSetAt[KeyOfQuery(lastOp.query)] # NeverSet
             /\ now - lastSetAt[KeyOfQuery(lastOp.query)] > MAX_AGE )
              => lastGet = Miss

\* a get that finds the entry of a set made more than MAX_AGE ago still in the
\* Map, and reports a miss
C2_Witness ==
    /\ lastOp.op = "get"
    /\ lastGet = Miss
    /\ lastSetAt[KeyOfQuery(lastOp.query)] # NeverSet
    /\ now - lastSetAt[KeyOfQuery(lastOp.query)] > MAX_AGE
    /\ MapIndex(memoryCache, KeyOfQuery(lastOp.query)) # 0

\* C3: after MAX_ITEMS + 1 calls of set with pairwise distinct keys on an empty
\* cache, the cache holds exactly MAX_ITEMS entries, and the key that is gone
\* was set no later than any entry that is left.
C3_EvictsOldestOnInsert ==
    inserted = MAX_ITEMS + 1 =>
        /\ Len(memoryCache) = MAX_ITEMS
        /\ \A k \in CacheKeys :
              (lastSetAt[k] # NeverSet /\ MapIndex(memoryCache, k) = 0)
              => \A m \in 1..Len(memoryCache) : lastSetAt[k] <= memoryCache[m].timestamp

\* C4: the cache never holds more than MAX_ITEMS entries (stated for a cache
\* that was empty after construction or clear and has seen only set since).
C4_AtMostCapEntries ==
    inserted >= 0 => Len(memoryCache) <= MAX_ITEMS

\* C21: whatever set, get, cleanup and clear have run and however time has
\* moved, a get that returns a list returns the list of the last set for the
\* key of its query (an entry restored at construction counts as the set of the
\* session that saved it), that set is less than MAX_AGE old, and no clear has
\* run since; the list of an older set for the key is never returned.
C21_GetReturnsLatestSet ==
    (lastOp.op = "get" /\ lastGet.hit) =>
        LET n == lastSetN[KeyOfQuery(lastOp.query)]
        IN  /\ n # -1
            /\ n > 0 => /\ lastGet.results = CallResults(n)
                        /\ now - lastSetAt[KeyOfQuery(lastOp.query)] < MAX_AGE
            /\ n = 0 => lastGet.results \in {Stored1, Stored2}

\* a get that returns the list of the second or third set for its key: every
\* set of the session went to that key
C21_Witness ==
    /\ lastOp.op = "get"
    /\ lastGet.hit
    /\ nSets >= 2
    /\ lastSetN[KeyOfQuery(lastOp.query)] = nSets
    /\ \A k \in CacheKeys \ {KeyOfQuery(lastOp.query)} : lastSetAt[k] = NeverSet

\* C22: every cleanup gets out of its eviction loop: each pass of the loop
\* deletes an entry until the Map is back under the cap, so no cleanup is left
\* going round the loop with nothing it can delete.
C22_EvictionLoopFinishes == spin = -1

\* C23: after a cleanup that ran and returned, the Map holds no entry that get
\* would report as a miss because of its age, and at most MAX_ITEMS entries.
C23_SweepLeavesNoExpiredEntry ==
    (lastOp.op = "cleanup" /\ lastOp.ran /\ spin = -1) =>
        /\ \A k \in 1..Len(memoryCache) : isCacheValid(memoryCache[k], now)
        /\ Len(memoryCache) <= MAX_ITEMS

\* C24: get changes neither the Map (its entries, their results and their
\* timestamps) nor the payload in localStorage; an expired entry leaves the Map
\* only in a cleanup, in a set for its key, or in a clear.
C24_GetIsReadOnly ==
    [][/\ lastOp'.op = "get" => (memoryCache' = memoryCache /\ storage' = storage)
       /\ \A k \in 1..Len(memoryCache) :
             ( /\ ~isCacheValid(memoryCache[k], now)
               /\ memoryCache[k] \notin Range(memoryCache') )
             => \/ lastOp'.op \in {"cleanup", "clear"}
                \/ spin # -1
                \/ (lastOp'.op = "set" /\ KeyOfQuery(lastOp'.query) = memoryCache[k].key)]_vars

\* a get that reported a miss for an entry past its age, with the entry still
\* in the Map and in the saved payload
C24_Witness ==
    /\ lastOp.op = "get"
    /\ ~lastGet.hit
    /\ \E k \in 1..Len(memoryCache) :
          /\ memoryCache[k].key = KeyOfQuery(lastOp.query)
          /\ ~isCacheValid(memoryCache[k], now)
    /\ storage = memoryCache

----------------------------------------------------------------------------
(* The cache on a localStorage whose every access throws *)

\* construction while localStorage holds a payload that cannot be read
FailingStorageInit ==
    /\ RankerIdle
    /\ ScoreIdle /\ DiversityIdle /\ SimilarityIdle
    /\ now = StartTime
    /\ storageMode = "throws"
    /\ storage = << CacheItem(<<"a">>, Stored1, StartTime), CacheItem(<<"b">>, Stored2, StartTime) >>
    /\ memoryCache = loadFromStorage(storage, storageMode, now)
    /\ lastCleanup = 0
    /\ spin = -1
    /\ nSets = 0
    /\ inserted = IF memoryCache = <<>> THEN 0 ELSE -1
    /\ lastSetAt = [k \in CacheKeys |-> NeverSet]
    /\ lastSetN = [k \in CacheKeys |-> 0]
    /\ lastOp = [op |-> "load"]
    /\ lastGet = Miss

FailingStorageSpec == FailingStorageInit /\ [][CacheNext]_vars

\* the last call of the cache ended in an exception: loadFromStorage and
\* saveToStorage catch theirs, so only clear can
Raised == lastOp.op = "clear" /\ lastOp.raised

\* C16: with a failing localStorage no call of the cache raises, and the Map
\* keeps working: get(q) directly after set(q, r) returns r, and after clear
\* the cache is empty.
C16_StorageFailureStaysInside ==
    storageMode = "throws" =>
        /\ ~Raised
        /\ (lastOp.op = "get" /\ lastOp.justSet) => lastGet = Hit(lastOp.given)
        /\ lastOp.op = "clear" => memoryCache = <<>>

----------------------------------------------------------------------------
(* The cache under queries that hold characters outside [A-Za-z0-9_-].  A     *)
(* Chinese character is written as its pinyin syllable, as in the scorer.    *)

\* two titles in Chinese, and two queries that differ in one ASCII character
TitleQueries ==
    { <<"liu", "lang">>, <<"san", "ti">>, <<"a", " ", "b">>, <<"a", "_", "b">> }

TitleKeys == { generateCacheKey(q) : q \in TitleQueries }

TitleCacheInit ==
    /\ RankerIdle
    /\ ScoreIdle /\ DiversityIdle /\ SimilarityIdle
    /\ now = StartTime
    /\ storageMode \in StorageModes
    /\ storage \in StoredPayloads
    /\ memoryCache = loadFromStorage(storage, storageMode, now)
    /\ lastCleanup = 0
    /\ spin = -1
    /\ nSets = 0
    /\ inserted = IF memoryCache = <<>> THEN 0 ELSE -1
    /\ lastSetAt = [k \in TitleKeys |-> NeverSet]
    /\ lastSetN = [k \in TitleKeys |-> 0]
    /\ lastOp = [op |-> "load"]
    /\ lastGet = Miss

TitleCacheNext ==
    \/ \E q \in TitleQueries : Set(q, CallResults(nSets + 1))
    \/ \E q \in TitleQueries : Get(q)
    \/ Clear
    \/ Cleanup
    \/ CleanupSpin
    \/ Tick

TitleCacheSpec == TitleCacheInit /\ [][TitleCacheNext]_vars

\* two queries are equal up to letter case, whitespace at the ends and the
\* length of the runs of whitespace inside
SameQuery(q1, q2) ==
    CollapseWhitespace(toLowerCase(trim(q1))) = CollapseWhitespace(toLowerCase(trim(q2)))

\* C25: a get that returns a list returns the list of an entry whose query is
\* the query of the get up to letter case, whitespace at the ends and the
\* length of whitespace runs; queries that differ in any other character never
\* share an entry.
C25_HitOnlyForSameQuery ==
    (lastOp.op = "get" /\ lastGet.hit) =>
        LET at == MapIndex(memoryCache, generateCacheKey(lastOp.query))
        IN  SameQuery(memoryCache[at].query, lastOp.query)

----------------------------------------------------------------------------
(* The diversity pass and the final sort of rankResults, on longer lists *)

Sources == { "x", "y" }
ScorePatterns == { "flat", "falling", "rising" }

\* finalScoredResults: item i of n from source src[i], with a finalScore that
\* is the same for all items, falls along the list, or rises along it
FinalScoredItems(n, src, pattern) ==
    [i \in 1..n |->
        [ref |-> i, result |-> [source |-> src[i]],
         finalScore |-> CASE pattern = "flat" -> Points(50)
                          [] pattern = "falling" -> Points(n - i)
                          [] pattern = "rising" -> Points(i)]]

DiversityInit ==
    /\ RankerIdle /\ CacheIdle /\ ScoreIdle /\ SimilarityIdle
    /\ \E n \in 0..MaxItems : \E src \in [1..n -> Sources], pattern \in ScorePatterns :
          divInput = FinalScoredItems(n, src, pattern)
    /\ divKept = <<>>
    /\ divOut = <<>>

\* steps four and five of rankResults
DiversifyAndSort ==
    /\ pc = "init"
    /\ pc' = "diversified"
    /\ divKept' = Refs(optimizeDiversity(divInput))
    /\ divOut' = Refs(sortByFinalScore(optimizeDiversity(divInput)))
    /\ UNCHANGED <<results, query, historyManager, currentYear, config, dedupStage,
                   rankOut, dedupOut, dedupOut2, divInput, cacheVars, scoreVars, simVars>>

DiversityNext == DiversifyAndSort

DiversitySpec == DiversityInit /\ [][DiversityNext]_vars

Diversified == pc = "diversified"

\* how many of the referenced items of divInput come from a source
FromSource(refs, source) ==
    Cardinality({ i \in refs : divInput[i].result.source = source })

\* Math.max(3, Math.floor(N * 0.3)) for the N items of divInput
Cap == Max(3, (3 * Len(divInput)) \div 10)

\* C12: of 12 deduplicated results, 10 from x and 2 from y, in any order,
\* rankResults returns at most 6 from x and both from y.
C12_TenAndTwo ==
    ( /\ Diversified
      /\ Len(divInput) = 12
      /\ FromSource(1..12, "x") = 10
      /\ FromSource(1..12, "y") = 2 )
    => /\ FromSource(Range(divOut), "x") <= 6
       /\ FromSource(Range(divOut), "y") = 2

\* the ten from x come first: six of them are returned, four are dropped
C12_Witness ==
    /\ Diversified
    /\ Len(divInput) = 12
    /\ FromSource(1..10, "x") = 10
    /\ FromSource(11..12, "y") = 2
    /\ FromSource(Range(divOut), "x") = 6
    /\ Len(divOut) = 8

\* C19: when the diversity pass drops an item of a source, every item of that
\* source it keeps has a finalScore at least as high as the dropped item's.
C19_DropsOnlyLowerScored ==
    Diversified =>
        \A i \in 1..Len(divInput) :
            i \notin Range(divKept) =>
                \A k \in Range(divKept) :
                    divInput[k].result.source = divInput[i].result.source
                        => divInput[k].finalScore >= divInput[i].finalScore

\* C20: the diversity pass drops an item only if its source already has at
\* least Cap kept items and at least 2 * Cap items are kept in all; so no
\* source has more than 2 * Cap kept items, a source with at most Cap items
\* keeps them all, and a list of at most 2 * Cap items is kept whole.
C20_DropsOnlyOverBothLimits ==
    Diversified =>
        /\ \A i \in 1..Len(divInput) :
              i \notin Range(divKept) =>
                  LET keptBefore == { k \in Range(divKept) : k < i }
                  IN  /\ FromSource(keptBefore, divInput[i].result.source) >= Cap
                      /\ Cardinality(keptBefore) >= 2 * Cap
        /\ \A s \in Sources :
              /\ FromSource(Range(divKept), s) <= 2 * Cap
              /\ FromSource(1..Len(divInput), s) <= Cap
                    => FromSource(Range(divKept), s) = FromSource(1..Len(divInput), s)
        /\ Len(divInput) <= 2 * Cap => divKept = [i \in 1..Len(divInput) |-> i]

\* a pass that dropped an item while keeping all items of the other source
C20_Witness ==
    /\ Diversified
    /\ Len(divKept) < Len(divInput)
    /\ \E s \in Sources :
          /\ FromSource(1..Len(divInput), s) > 0
          /\ FromSource(Range(divKept), s) = FromSource(1..Len(divInput), s)

----------------------------------------------------------------------------
(* calculateStringSimilarity on its own *)

Alphabet == { "a", "b" }
Strings == UNION { [1..n -> Alphabet] : n \in 0..MaxStrLen }

SimilarityInit ==
    /\ RankerIdle /\ CacheIdle /\ ScoreIdle /\ DiversityIdle
    /\ simStr1 \in Strings
    /\ simStr2 \in Strings
    /\ simOut = <<>>

\* calculateStringSimilarity called on the two strings, both ways round, and
\* on the first string and itself
Compare ==
    /\ pc = "init"
    /\ pc' = "compared"
    /\ simOut' = [forth |-> calculateStringSimilarity(simStr1, simStr2),
                  back |-> calculateStringSimilarity(simStr2, simStr1),
                  self |-> calculateStringSimilarity(simStr1, simStr1)]
    /\ UNCHANGED <<results, query, historyManager, currentYear, config, dedupStage,
                   rankOut, dedupOut, dedupOut2, simStr1, simStr2,
                   cacheVars, scoreVars, divVars>>

SimilarityNext == Compare

SimilaritySpec == SimilarityInit /\ [][SimilarityNext]_vars

Compared == pc = "compared"

\* the edit distance by its textbook recursion
RECURSIVE Levenshtein(_, _)
Levenshtein(a, b) ==
    IF a = <<>> THEN Len(b)
    ELSE IF b = <<>> THEN Len(a)
    ELSE IF Head(a) = Head(b) THEN Levenshtein(Tail(a), Tail(b))
    ELSE 1 + Min(Levenshtein(Tail(a), Tail(b)),
                 Min(Levenshtein(Tail(a), b), Levenshtein(a, Tail(b))))

\* C17: calculateStringSimilarity is symmetric in its two arguments.
C17_SimilaritySymmetric ==
    Compared => SameNumber(simOut.forth, simOut.back)

\* two different strings of different length that are neither equal nor
\* wholly unlike
C17_Witness ==
    /\ Compared
    /\ Len(simStr1) < Len(simStr2)
    /\ 0 < simOut.forth.num
    /\ simOut.forth.num < simOut.forth.den

\* C18: calculateStringSimilarity(x, x) is 1 for every x, the empty string
\* included; it is 0 when exactly one argument is empty; otherwise it is
\* 1 - levenshtein(a, b) / max(len(a), len(b)); and it always lies in [0, 1].
C18_SimilarityContract ==
    Compared =>
        /\ SameNumber(simOut.self, Fraction(1, 1))
        /\ (simStr1 = <<>> /\ simStr2 # <<>>)
              => /\ SameNumber(simOut.forth, Fraction(0, 1))
                 /\ SameNumber(simOut.back, Fraction(0, 1))
        /\ (simStr1 # <<>> \/ simStr2 # <<>>)
              => LET maxLen == Max(Len(simStr1), Len(simStr2))
                 IN  SameNumber(simOut.forth,
                                Fraction(maxLen - Levenshtein(simStr1, simStr2), maxLen))
        /\ \A f \in {simOut.forth, simOut.back, simOut.self} :
              0 <= f.num /\ f.num <= f.den /\ f.den > 0

\* two strings of equal length of which one letter has to be replaced
C18_Witness ==
    /\ Compared
    /\ Len(simStr1) = Len(simStr2)
    /\ Len(simStr1) >= 2
    /\ Levenshtein(simStr1, simStr2) = 1

----------------------------------------------------------------------------
(* The weights and the combined score of one result *)

NoOverride == [w \in {} |-> 0]

\* partial configurations handed to the constructor or to updateConfig
ConfigOverrides ==
    { NoOverride,
      [titleWeight |-> 500],
      [yearWeight |-> 0, sourceWeight |-> 1000],
      [recencyWeight |-> 150] }

\* the records of ResultPool that have a title, a record whose title carries
\* markers of both kinds, and an old record from an unknown source
ScorePool ==
    ResultPool
    \cup { Result("9", <<"re", "men", "jing", "dian">>, Y2026, "douban", <<>>),
           Result("10", <<"b">>, <<"1", "9", "8", "0">>, "x", <<"1", "9">>) }

\* no history manager, one whose lookup raises, a short history, or a history
\* with ten matching queries
ScoreHistoryManagers ==
    { Null, Throwing, << <<"a", "b">> >>, [k \in 1..10 |-> <<"b">>] }

\* new SearchResultRanker(config)
ScoreInit ==
    /\ CacheIdle /\ DiversityIdle /\ SimilarityIdle
    /\ \E r \in ScorePool : results = <<r>>
    /\ query \in Queries
    /\ historyManager \in ScoreHistoryManagers
    /\ currentYear \in CurrentYears
    /\ \E o \in ConfigOverrides : config = MergeConfig(DefaultConfig, o) /\ supplied = o
    /\ nUpdates = 0
    /\ finalScored = <<>>
    /\ pc = "init"
    /\ dedupStage = NoValue
    /\ rankOut = NoValue
    /\ dedupOut = NoValue
    /\ dedupOut2 = NoValue

\* updateConfig(newConfig)
UpdateConfig(newConfig) ==
    /\ pc = "init"
    /\ nUpdates < MaxUpdates
    /\ nUpdates' = nUpdates + 1
    /\ config' = MergeConfig(config, newConfig)
    /\ supplied' = MergeConfig(supplied, newConfig)
    /\ UNCHANGED <<results, query, historyManager, currentYear, pc, dedupStage, rankOut,
                   dedupOut, dedupOut2, finalScored, cacheVars, divVars, simVars>>

\* steps one and three of rankResults
ScoreResults ==
    /\ pc = "init"
    /\ pc' = "scored"
    /\ finalScored' =
          [k \in 1..Len(results) |->
              LET scores == calculateScores(results[k], query, historyManager, currentYear)
              IN  [scores |-> scores, finalScore |-> calculateFinalScore(scores, config)]]
    /\ UNCHANGED <<results, query, historyManager, currentYear, config, dedupStage, rankOut,
                   dedupOut, dedupOut2, supplied, nUpdates, cacheVars, divVars, simVars>>

ScoreNext == (\E o \in ConfigOverrides : UpdateConfig(o)) \/ ScoreResults

ScoreSpec == ScoreInit /\ [][ScoreNext]_vars

Scored == pc = "scored"

WeightNames == DOMAIN DefaultConfig

\* the five weights of the combined score, added up
SumOfScoreWeights(cfg) ==
    cfg.titleWeight + cfg.yearWeight + cfg.sourceWeight
    + cfg.popularityWeight + cfg.recencyWeight

\* C13: every weight that was supplied, to the constructor or to updateConfig,
\* has the value supplied last, every other weight has its default, and
\* finalScore is the plain weighted sum of the five scores, whatever the
\* weights add up to.
C13_WeightsNotRenormalized ==
    /\ DOMAIN config = WeightNames
    /\ \A w \in WeightNames :
          config[w] = IF w \in DOMAIN supplied THEN supplied[w] ELSE DefaultConfig[w]
    /\ Scored =>
          \A k \in 1..Len(finalScored) :
              LET scores == finalScored[k].scores
              IN  finalScored[k].finalScore
                    = scores.titleScore * config.titleWeight
                      + scores.yearScore * config.yearWeight
                      + scores.sourceScore * config.sourceWeight
                      + scores.popularityScore * config.popularityWeight
                      + scores.recencyScore * config.recencyWeight

\* a result scored after updateConfig, with weights that do not add up to 1.0
C13_Witness ==
    /\ Scored
    /\ nUpdates > 0
    /\ DOMAIN supplied # {}
    /\ SumOfScoreWeights(config) > 1000
    /\ finalScored[1].finalScore > 0

\* C14 as the specification has it: the five default weights of the combined
\* score add up to 1.0.
C14_FiveDefaultsSumToOne ==
    DOMAIN supplied = {} => SumOfScoreWeights(config) = 1000

\* C14: the five default weights of the combined score add up to 0.95; it is
\* with diversityWeight, which the combined score does not use, that the
\* defaults add up to 1.0.
C14_FiveDefaultsSumToNinetyFive ==
    DOMAIN supplied = {} =>
        /\ SumOfScoreWeights(config) = 950
        /\ SumOfScoreWeights(config) + config.diversityWeight = 1000

\* a result scored with the defaults
C14_Witness ==
    /\ Scored
    /\ DOMAIN supplied = {}
    /\ config = DefaultConfig

\* C15: with the default weights finalScore lies in [0, 100], with and
\* without a history manager.
C15_FinalScoreInRange ==
    (Scored /\ DOMAIN supplied = {}) =>
        \A k \in 1..Len(finalScored) :
            /\ 0 <= finalScored[k].finalScore
            /\ finalScored[k].finalScore <= 1000 * Points(100)

\* a result with a history manager whose popularityScore is above 100
C15_Witness ==
    /\ Scored
    /\ DOMAIN supplied = {}
    /\ historyManager # Null
    /\ finalScored[1].scores.popularityScore > Points(100)

\* C26: the popularity score of every result is between 0 and 100, with and
\* without a history manager, with and without an external id.
C26_PopularityInRange ==
    Scored =>
        \A k \in 1..Len(finalScored) :
            /\ finalScored[k].scores.popularityScore >= 0
            /\ finalScored[k].scores.popularityScore <= Points(100)

\* the history lookup of calculatePopularityScore is absent or raises
LookupFails(result, hm) ==
    hm = Null \/ hm = Throwing \/ HistoryFilterThrows(result, hm)

\* the title of a result holds one of the given two-character markers
HasMarker(result, markers) ==
    /\ ~Falsy(result.title)
    /\ \E m \in markers : includes(toLowerCase(result.title), m)

\* the heuristic as the specification states it: base 50, plus 30% of the source score,
\* plus 10 for a popular/latest/recommended marker, plus 15 for a
\* classic/high-rated/award marker, clamped to [0, 100]
FallbackHeuristic(result) ==
    LET sum == Points(50) + 3 * SOURCE_QUALITY_SCORES(result.source)
               + (IF HasMarker(result, {<<"re", "men">>, <<"zui", "xin">>, <<"tui", "jian">>})
                  THEN Points(10) ELSE 0)
               + (IF HasMarker(result, {<<"jing", "dian">>, <<"gao", "fen">>, <<"huo", "jiang">>})
                  THEN Points(15) ELSE 0)
    IN  IF sum > Points(100) THEN Points(100) ELSE IF sum < 0 THEN 0 ELSE sum

\* C27: when there is no history manager or its lookup raises, the popularity
\* score is the fallback heuristic, and scoring yields a score for the result.
C27_FallbackWhenLookupFails ==
    Scored =>
        /\ Len(finalScored) = Len(results)
        /\ \A k \in 1..Len(finalScored) :
              LookupFails(results[k], historyManager)
              => finalScored[k].scores.popularityScore = FallbackHeuristic(results[k])

\* a result scored with a manager whose lookup raises, on a title with both
\* markers from the best source: the sum of 103.5 is clamped to 100
C27_Witness ==
    /\ Scored
    /\ historyManager = Throwing
    /\ HasMarker(results[1], {<<"re", "men">>})
    /\ HasMarker(results[1], {<<"jing", "dian">>})
    /\ finalScored[1].scores.popularityScore = Points(100)


----------------------------------------------------------------------------
(* calculateTitleScore on pairs of titles of equal length *)

TitleAlphabet == { "a", "B", " " }
QueryAlphabet == { "a", "b", " " }

\* new SearchResultRanker(), and a list of two results whose titles have the
\* same length (or are both missing)
TitleInit ==
    /\ CacheIdle /\ DiversityIdle /\ SimilarityIdle
    /\ \/ \E n \in 0..MaxTitleLen :
             \E t1 \in [1..n -> TitleAlphabet], t2 \in [1..n -> TitleAlphabet] :
                results = << Result("1", t1, Y2026, "x", <<>>), Result("2", t2, Y2026, "x", <<>>) >>
       \/ results = << Result("1", Undefined, Y2026, "x", <<>>),
                       Result("2", Undefined, Y2026, "x", <<>>) >>
    /\ \E n \in 0..MaxQueryLen : query \in [1..n -> QueryAlphabet]
    /\ historyManager = Null
    /\ currentYear \in CurrentYears
    /\ config = DefaultConfig
    /\ supplied = NoOverride
    /\ nUpdates = 0
    /\ finalScored = <<>>
    /\ pc = "init"
    /\ dedupStage = NoValue
    /\ rankOut = NoValue
    /\ dedupOut = NoValue
    /\ dedupOut2 = NoValue

\* the one step of a behaviour scores the two results
TitleSpec == TitleInit /\ [][ScoreResults]_vars

\* lower case, whitespace at the ends removed
Normalized(s) == trim(toLowerCase(s))

TitleScoreOf(k) == finalScored[k].scores.titleScore

\* title and query are the same up to letter case and whitespace at the ends
ExactMatch(k) ==
    results[k].title # Undefined /\ Normalized(results[k].title) = Normalized(query)

\* the title holds the query as a substring, up to letter case and whitespace
\* at the ends
Contains(k) ==
    results[k].title # Undefined /\ includes(Normalized(results[k].title), Normalized(query))

\* C28 as stated: an exact match scores 100; of two titles of equal length the
\* one that does not hold the query scores strictly less than the one that
\* holds it, which scores at least 80 while the other scores at most 60.
C28_TitleScoreMonotonic ==
    Scored =>
        /\ \A k \in 1..2 : ExactMatch(k) => TitleScoreOf(k) = Points(100)
        /\ \A k, m \in 1..2 :
              (Contains(k) /\ results[m].title # Undefined /\ ~Contains(m))
              => /\ TitleScoreOf(m) < TitleScoreOf(k)
                 /\ TitleScoreOf(k) >= Points(80)
                 /\ TitleScoreOf(m) <= Points(60)

\* C28 as amended: the same for a title and a query that are not empty; when
\* the title or the query is empty or missing the title score is 0.
C28_TitleScoreMonotonicNonEmpty ==
    Scored =>
        /\ \A k \in 1..2 :
              IF Falsy(results[k].title) \/ Falsy(query)
              THEN TitleScoreOf(k) = 0
              ELSE ExactMatch(k) => TitleScoreOf(k) = Points(100)
        /\ \A k, m \in 1..2 :
              ( /\ ~Falsy(query) /\ ~Falsy(results[k].title) /\ ~Falsy(results[m].title)
                /\ Contains(k) /\ ~Contains(m) )
              => /\ TitleScoreOf(m) < TitleScoreOf(k)
                 /\ TitleScoreOf(k) >= Points(80)
                 /\ TitleScoreOf(m) <= Points(60)

\* a title that matches the query in another letter case and with whitespace
\* around it, next to a title of the same length that holds the query without
\* matching it; and a title that holds the query next to one of the same
\* length that does not and still scores above 0
C28_Witness ==
    /\ Scored
    /\ ~Falsy(query)
    /\ \/ /\ ExactMatch(1) /\ results[1].title # query
          /\ Contains(2) /\ ~ExactMatch(2)
          /\ TitleScoreOf(2) < TitleScoreOf(1)
       \/ /\ Contains(1) /\ ~ExactMatch(1)
          /\ ~Contains(2) /\ TitleScoreOf(2) > 0


----------------------------------------------------------------------------
(* calculateYearScore and calculateRecencyScore over years and queries *)

DigitChar(n) == CHOOSE c \in {"0", "1", "2", "3", "4", "5", "6", "7", "8", "9"} : DigitValue(c) = n

\* a year as the string of its four digits
YearString(y) ==
    << DigitChar(y \div 1000), DigitChar((y \div 100) % 10),
       DigitChar((y \div 10) % 10), DigitChar(y % 10) >>

\* the years of the results: around every step of the two tables
ResultYearNumbers == {1989, 1990, 2005, 2006, 2015, 2016} \cup (2020..2029)

\* result.year: a year, none, the empty string, or a string that is no number
ResultYears ==
    { YearString(y) : y \in ResultYearNumbers } \cup { Undefined, <<>>, <<"x">> }

\* the query: a year, the empty string, a title, a year followed or preceded
\* by a blank or a letter
YearQueries ==
    { YearString(y) : y \in {1899, 1900} \cup (2020..2029) }
    \cup { <<>>, <<"a", "b">>, Y2026 \o <<"a">>, <<"a">> \o Y2026, <<" ">> \o Y2026 }

\* new SearchResultRanker(), and a list of one result
YearInit ==
    /\ CacheIdle /\ DiversityIdle /\ SimilarityIdle
    /\ \E year \in ResultYears : results = << Result("1", <<"a", "b">>, year, "x", <<>>) >>
    /\ query \in YearQueries
    /\ historyManager = Null
    /\ currentYear \in CurrentYears
    /\ config = DefaultConfig
    /\ supplied = NoOverride
    /\ nUpdates = 0
    /\ finalScored = <<>>
    /\ pc = "init"
    /\ dedupStage = NoValue
    /\ rankOut = NoValue
    /\ dedupOut = NoValue
    /\ dedupOut2 = NoValue

\* the one step of a behaviour scores the result
YearSpec == YearInit /\ [][ScoreResults]_vars

YearOfResult == parseInt(results[1].year)
YearOfQuery == parseInt(query)

\* the query holds a year that parseInt reads, within [1900, currentYear + 2]
QueryHasYear ==
    ~YearOfQuery.nan /\ YearOfQuery.v >= 1900 /\ YearOfQuery.v <= currentYear + 2

\* the table of the year difference
ByYearDifference(diff) ==
    IF diff = 0 THEN Points(100)
    ELSE IF diff = 1 THEN Points(90)
    ELSE IF diff <= 2 THEN Points(80)
    ELSE IF diff <= 5 THEN Points(60)
    ELSE Points(30)

\* the score for a query without a year
ByOwnYear ==
    IF ~YearOfResult.nan /\ YearOfResult.v >= 1990 /\ YearOfResult.v <= currentYear + 2
    THEN Points(70) ELSE Points(30)

\* C29 as stated: 50 for a result without a year; for a query with a year the
\* table of the year difference; for a query without a year, the empty query
\* included, 70 for a result year in [1990, currentYear + 2] and 30 otherwise.
C29_YearScoreTable ==
    Scored =>
        LET score == finalScored[1].scores.yearScore
        IN  IF Falsy(results[1].year) THEN score = Points(50)
            ELSE IF QueryHasYear
            THEN ~YearOfResult.nan => score = ByYearDifference(Abs(YearOfResult.v - YearOfQuery.v))
            ELSE score = ByOwnYear

\* C29 as amended: the same, with 50 for the empty query too.
C29_YearScoreTableEmptyQuery ==
    Scored =>
        LET score == finalScored[1].scores.yearScore
        IN  IF Falsy(results[1].year) \/ Falsy(query) THEN score = Points(50)
            ELSE IF QueryHasYear
            THEN ~YearOfResult.nan => score = ByYearDifference(Abs(YearOfResult.v - YearOfQuery.v))
            ELSE score = ByOwnYear

\* a result of the year after next scored against the query of that year
C29_Witness ==
    /\ Scored
    /\ QueryHasYear
    /\ YearOfQuery.v = currentYear + 2
    /\ ~YearOfResult.nan /\ YearOfResult.v = YearOfQuery.v
    /\ finalScored[1].scores.yearScore = Points(100)

\* the table of the age
ByAge(age) ==
    IF age <= 1 THEN Points(100)
    ELSE IF age <= 3 THEN Points(85)
    ELSE IF age <= 5 THEN Points(70)
    ELSE IF age <= 10 THEN Points(50)
    ELSE IF age <= 20 THEN Points(30)
    ELSE Points(10)

\* C30: the recency score is the table value of currentYear - resultYear,
\* whatever the query; a result whose year is missing or no number gets one of
\* the six values of the table.
C30_RecencyByAge ==
    Scored =>
        LET score == finalScored[1].scores.recencyScore
        IN  IF YearOfResult.nan
            THEN score \in { Points(100), Points(85), Points(70), Points(50), Points(30), Points(10) }
            ELSE score = ByAge(currentYear - YearOfResult.v)

\* a result without a year scored as one older than twenty years, and a result
\* exactly twenty years old
C30_Witness ==
    /\ Scored
    /\ \/ (results[1].year = Undefined /\ finalScored[1].scores.recencyScore = Points(10))
       \/ (~YearOfResult.nan /\ currentYear - YearOfResult.v = 20
           /\ finalScored[1].scores.recencyScore = Points(30))


============================================================================
